---- MODULE Spec2Model ----
(***************************************************************************)
(* State-machine model of the iPad chatbot backend:                        *)
(*   - backend/utils/query_classifier.py   (QueryClassifier)               *)
(*   - backend/utils/web_search.py         (WebSearchTool)                 *)
(*   - backend/utils/response_generator.py (ResponseGenerator)             *)
(*   - backend/chatbot/ipad_agent.py       (iPadChatbotAgent + workflow)   *)
(*   - backend/main.py                     (session store, HTTP handlers)  *)
(*                                                                         *)
(* A Python str is a sequence of tokens (words, whitespace tokens, text    *)
(* fragments); lower(), strip() and the `in` substring test are computed   *)
(* on the tokens.  The LLM, the search providers and the clock are the     *)
(* environment: their answers are drawn from small sets.                   *)
(***************************************************************************)
EXTENDS Naturals, Integers, Sequences, FiniteSets, TLC

VARIABLES
    \* ---- WebSearchTool (web_search.py) ----
    search_apis,      \* [serpapi |-> BOOLEAN, google_custom |-> BOOLEAN]: the "enabled" flags
    session,          \* self.session: 0 = None, n > 0 = the n-th aiohttp session created
    clients,          \* the aiohttp sessions created so far: clients[n] is "open" or "closed"
    s_pc,             \* position inside search_real_time
    s_query,          \* query argument of the running search_real_time call
    s_caller,         \* who awaits the running search call ("tool" or "search_web")
    attempted,        \* providers requested by the running call, in order, with what they returned
    s_result,         \* value returned by the last search_real_time call
    s_calls,          \* number of search_real_time calls made directly on the tool
    \* ---- iPadChatbotAgent.process_query + compiled workflow (ipad_agent.py) ----
    pq_pc,            \* position inside process_query
    state,            \* AgentState: the workflow's channel values
    triggered,        \* nodes scheduled for the current superstep and not yet started
    running,          \* nodes started and not yet returned
    writes,           \* states returned by the nodes that finished in the current superstep
    sw_queries,       \* _search_web: query variants still to search
    sw_results,       \* _search_web: search_results accumulated so far
    trace,            \* node events of the request, in order
    llm_replies,      \* <<component, reply>> of every LLM call answered during this request
    result,           \* value returned by process_query
    \* ---- main.py: session store and HTTP handlers ----
    agent,            \* the global agent: TRUE = initialized, FALSE = None
    user_sessions,    \* the dict user_sessions: key -> reference to a ConversationSession
    heap,             \* the live ConversationSession objects, by reference
    uuids,            \* number of uuid4() values drawn
    chat_count,       \* number of /chat requests accepted
    now,              \* the wall clock (hours)
    resp              \* the HTTP response sent by the step just taken (op "none" if none)

tool_vars  == <<search_apis, session, clients, s_pc, s_query, s_caller, attempted,
               s_result, s_calls>>
agent_vars == <<pq_pc, state, triggered, running, writes, sw_queries, sw_results, trace,
                llm_replies, result>>
main_vars  == <<agent, user_sessions, heap, uuids, chat_count, now, resp>>
vars       == <<tool_vars, agent_vars, main_vars>>

(***************************************************************************)
(* Bounds                                                                  *)
(***************************************************************************)
MaxToolCalls == 2      \* direct search calls made on the tool in SpecSearch
MaxPagesOk   == 1      \* Apple pages (first of apple_urls) that can answer a direct scrape
MaxSessions  == 2      \* ConversationSession objects created
MaxChats     == 2      \* /chat requests
MaxClock     == 48     \* hours the clock runs (two ticks)
TickHours    == 24     \* hours per clock tick

(***************************************************************************)
(* Python str operations on token sequences                                *)
(***************************************************************************)
None == <<"#None">>    \* the Python value None where a str is expected

Whitespace == {" ", "\n"}

LowerTable ==
    [t \in {"iPad", "iPadOS", "Apple", "Pro", "Price", "Pricing", "PRICING", "General",
            "Troubleshooting", "Troubleshoot", "Technical", "Display", "Processor"} |->
        CASE t = "iPad" -> "ipad"
          [] t = "iPadOS" -> "ipados"
          [] t = "Troubleshoot" -> "troubleshoot"
          [] t = "Technical" -> "technical"
          [] t = "Apple" -> "apple"
          [] t = "Pro" -> "pro"
          [] t = "Price" -> "price"
          [] t = "Pricing" -> "pricing"
          [] t = "PRICING" -> "pricing"
          [] t = "General" -> "general"
          [] t = "Troubleshooting" -> "troubleshooting"
          [] t = "Display" -> "display"
          [] t = "Processor" -> "processor"]

LowerTok(t) == IF t \in DOMAIN LowerTable THEN LowerTable[t] ELSE t

\* str.lower()
Lower(s) == [i \in 1..Len(s) |-> LowerTok(s[i])]

RECURSIVE LStrip(_)
LStrip(s) == IF s # <<>> /\ Head(s) \in Whitespace THEN LStrip(Tail(s)) ELSE s

RECURSIVE RStrip(_)
RStrip(s) ==
    IF s # <<>> /\ s[Len(s)] \in Whitespace THEN RStrip(SubSeq(s, 1, Len(s) - 1)) ELSE s

\* str.strip()
Strip(s) == RStrip(LStrip(s))

\* proper substrings of a lower-case token that the code searches for
SubstrTable ==
    [t \in {"specs", "specifications", "troubleshooting", "prices", "problems", "displays",
            "ipados", "$799", "$1,099", "$599", "$449", "$499"} |->
        CASE t = "specs" -> {"spec"}
          [] t = "specifications" -> {"spec"}
          [] t = "troubleshooting" -> {"troubleshoot"}
          [] t = "prices" -> {"price"}
          [] t = "problems" -> {"problem"}
          [] t = "displays" -> {"display"}
          [] t = "ipados" -> {"ipad"}
          [] OTHER -> {"$"}]

TokHas(t, key) == t = key \/ (t \in DOMAIN SubstrTable /\ key \in SubstrTable[t])

\* `key in s` for a lower-cased str s and a key without blanks
Contains(s, key) == \E i \in 1..Len(s) : TokHas(s[i], key)

\* str.startswith("http")
StartsWithHttp(s) == s # <<>> /\ Head(s) \in {"http://", "https://"}

\* s[:n] on a list
Take(s, n) == SubSeq(s, 1, IF Len(s) < n THEN Len(s) ELSE n)

(***************************************************************************)
(* QueryClassifier (query_classifier.py)                                   *)
(***************************************************************************)
categories ==
    {"specifications", "pricing", "comparison", "availability", "troubleshooting",
     "features", "accessories", "setup", "updates", "general"}

\* what the awaited llm.ainvoke of the classifier can do: raise, or answer with
\* response.content (a str, or a non-str content on which .strip() raises)
LLMRaise == <<"#raise">>

ClassifierReplies ==
    {<<"pricing">>, <<" ", "Pricing", "\n">>, <<"troubleshooting">>, <<"specifications">>,
     <<"general">>, <<"features">>, <<>>, <<" ">>, <<"pricing", " ", "comparison">>,
     <<"tablets">>, <<"error">>, None, LLMRaise}

\* a classifier that returns the normalised reply without validating it
classify_unvalidated(reply) ==
    IF reply = LLMRaise \/ reply = None
    THEN "general"
    ELSE LET category == Lower(Strip(reply))
         IN  IF Len(category) = 1 THEN category[1] ELSE "general"

classify_with_context(reply) ==
    IF reply = LLMRaise \/ reply = None
    THEN "general"
    ELSE LET category == Lower(Strip(reply))
         IN  IF Len(category) = 1 /\ category[1] \in categories
             THEN category[1]
             ELSE "general"

classify(reply) == classify_with_context(reply)

\* the classifier's LLM call failed (logged "Classification failed")
ClassifierFailed(reply) == reply = LLMRaise \/ reply = None

(***************************************************************************)
(* WebSearchTool (web_search.py)                                           *)
(***************************************************************************)
Hit(title, url, content, source) ==
    [title |-> title, url |-> url, content |-> content, source |-> source]

\* one item of a provider's JSON answer; a missing key reads as "" through .get(key, "")
Item(title, link, snippet) == [title |-> title, link |-> link, snippet |-> snippet]

ItemGood   == Item(<<"iPad", "Pro">>, <<"https://", "example.com/ipad">>,
                   <<"Price", "from", "$799", "Display", "storage">>)
ItemNull   == Item(<<"iPad", "Air">>, <<"https://", "example.com/air">>, None)
ItemNoLink == Item(<<"iPad", "mini">>, <<>>, <<"battery", "cost">>)

\* what one HTTP GET of an API provider can produce
ApiAnswers ==
    {[kind |-> "error", items |-> <<>>],      \* transport failure / timeout
     [kind |-> "status", items |-> <<>>],     \* non-200 status
     [kind |-> "ok", items |-> <<>>],
     [kind |-> "ok", items |-> <<ItemNull>>],
     [kind |-> "ok", items |-> <<ItemNoLink, ItemGood>>]}

\* DuckDuckGo HTML: the (href, title, snippet) triples the two regexes find
DdgAnswers ==
    {[kind |-> "error", items |-> <<>>],
     [kind |-> "status", items |-> <<>>],
     [kind |-> "ok", items |-> <<>>],
     [kind |-> "ok", items |-> <<Item(<<"iPad", "Support">>, <<"//duckduckgo.com/l/?uddg">>,
                                      <<"fix", "display">>)>>],
     [kind |-> "ok", items |-> <<Item(<<>>, <<"https://", "support.apple.com/ipad">>,
                                      <<"problem">>)>>]}

_parse_serpapi_results(items) ==
    [i \in 1..Len(items) |->
        Hit(items[i].title, items[i].link, items[i].snippet, "serpapi_google")]

_parse_google_custom_results(items) ==
    [i \in 1..Len(items) |->
        Hit(items[i].title, items[i].link, items[i].snippet, "google_custom")]

RECURSIVE _parse_duckduckgo_html(_)
_parse_duckduckgo_html(items) ==
    IF items = <<>> THEN <<>>
    ELSE LET it == Head(items)
             title == Strip(it.title)
             snippet == Strip(it.snippet)
         IN  (IF it.link # <<>> /\ title # <<>>
              THEN <<Hit(title, it.link, snippet, "duckduckgo_html")>>
              ELSE <<>>) \o _parse_duckduckgo_html(Tail(items))

_search_serpapi(answer) ==
    IF answer.kind = "ok" THEN _parse_serpapi_results(answer.items) ELSE <<>>

_search_google_custom(answer) ==
    IF answer.kind = "ok" THEN _parse_google_custom_results(answer.items) ELSE <<>>

_search_duckduckgo_html(answer) ==
    IF answer.kind = "ok" THEN _parse_duckduckgo_html(Take(answer.items, 10)) ELSE <<>>

apple_urls ==
    << <<"https://", "www.apple.com/ipad/">>,
       <<"https://", "www.apple.com/ipad-pro/">>,
       <<"https://", "www.apple.com/ipad-air/">>,
       <<"https://", "www.apple.com/ipad-mini/">>,
       <<"https://", "www.apple.com/shop/buy-ipad/">> >>

\* the sets of pages that answer 200 with non-empty content in one scrape: any of the
\* first MaxPagesOk pages; the other pages do not answer
AppleAnswers == SUBSET (1..MaxPagesOk)

RECURSIVE ApplePages(_, _)
ApplePages(i, ok) ==
    IF i > Len(apple_urls) THEN <<>>
    ELSE (IF i \in ok
          THEN <<Hit(<<"Apple", "iPad">>, apple_urls[i],
                     <<"iPad", "Processor", "chip">>, "apple_official")>>
          ELSE <<>>) \o ApplePages(i + 1, ok)

_search_apple_direct(ok) == ApplePages(1, ok)

\* canned data without the general branch
_get_mock_results_no_default(query) ==
    LET query_lower == Lower(query)
    IN  IF Contains(query_lower, "price") \/ Contains(query_lower, "cost")
        THEN << Hit(<<"iPad", "Pricing", "Apple", "Store">>,
                    <<"https://", "www.apple.com/shop/buy-ipad">>,
                    <<"Current", "iPad", "pricing", "$799">> \o query,
                    "mock_pricing") >>
        ELSE <<>>

_get_enhanced_mock_results(query) ==
    LET query_lower == Lower(query)
    IN  IF Contains(query_lower, "price") \/ Contains(query_lower, "cost")
        THEN << Hit(<<"iPad", "Pricing", "Apple", "Store">>,
                    <<"https://", "www.apple.com/shop/buy-ipad">>,
                    <<"Current", "iPad", "pricing", "$799", "$1,099", "$599", "$449",
                      "$499">> \o query,
                    "mock_pricing"),
                Hit(<<"iPad", "Models", "Price", "Comparison">>,
                    <<"https://", "www.apple.com/ipad/compare">>,
                    <<"Compare", "iPad", "prices", "price", "display", "processor",
                      "storage">> \o query,
                    "mock_comparison") >>
        ELSE IF Contains(query_lower, "spec") \/ Contains(query_lower, "technical")
        THEN << Hit(<<"iPad", "Technical", "Specifications">>,
                    <<"https://", "support.apple.com/kb/SP885">>,
                    <<"Technical", "specifications", "chip", "displays", "storage">>
                      \o query,
                    "mock_specs") >>
        ELSE IF Contains(query_lower, "troubleshoot") \/ Contains(query_lower, "problem")
                \/ Contains(query_lower, "fix")
        THEN << Hit(<<"iPad", "Troubleshooting", "Guide">>,
                    <<"https://", "support.apple.com/guide/ipad">>,
                    <<"Troubleshoot", "charging", "problems", "display", "issues">>
                      \o query,
                    "mock_support") >>
        ELSE << Hit(<<"iPad", "Apple">>,
                    <<"https://", "www.apple.com/ipad">>,
                    <<"Discover", "iPad", "models", "chip", "displays">> \o query,
                    "mock_general"),
                Hit(<<"iPadOS">>,
                    <<"https://", "www.apple.com/ipados">>,
                    <<"Latest", "iPadOS", "features">> \o query,
                    "mock_ipados") >>

MockSources == {"mock_pricing", "mock_comparison", "mock_specs", "mock_support",
                "mock_general", "mock_ipados"}

\* _get_session that opens a new aiohttp session on every call
_get_session_always_new ==
    /\ clients' = Append(clients, "open")
    /\ session' = Len(clients')

\* _get_session: self.session is created on first use, then reused.  Nothing is
\* awaited between the test and the assignment.
_get_session ==
    IF session = 0
    THEN /\ clients' = Append(clients, "open")
         /\ session' = Len(clients')
    ELSE UNCHANGED <<session, clients>>

\* how one HTTP GET ended: "ok" for status 200, "failed" for another status or an
\* exception of session.get
Outcome(answer) == IF answer.kind = "ok" THEN "ok" ELSE "failed"

\* one GET per Apple page, in the order of apple_urls
AppleOutcomes(ok) == [i \in 1..Len(apple_urls) |-> IF i \in ok THEN "ok" ELSE "failed"]

\* one provider call of the running search: the hits it returned and how each of its
\* GET requests ended
Attempt(provider, results, requests) ==
    [provider |-> provider, n |-> Len(results), requests |-> requests]

\* search_real_time returns `results` to whoever awaits it
SearchReturn(results) ==
    /\ s_pc' = "returned"
    /\ s_result' = results

\* search_real_time / search: entry, called directly on the tool
SearchQueries ==
    { <<"iPad", "Pro", "price">>, <<"Apple", "Pencil">>, <<"tablet", "cost">>,
      <<"iPad", "fix", "Display">>, <<"tablet", "specs">>, <<"tablet">> }

search(query) ==
    /\ s_pc \in {"idle", "returned"}
    /\ pq_pc = "idle"
    /\ s_calls < MaxToolCalls
    /\ s_calls' = s_calls + 1
    /\ s_pc' = "serpapi"
    /\ s_query' = query
    /\ s_caller' = "tool"
    /\ attempted' = <<>>
    /\ UNCHANGED <<search_apis, session, clients, s_result, agent_vars, main_vars>>

\* the test of line 80 with its second disjunct dropped
mentions_ipad_only(query) == Contains(Lower(query), "ipad")

\* line 80: "ipad" in query.lower() or "apple" in query.lower()
mentions_ipad_or_apple(query) ==
    Contains(Lower(query), "ipad") \/ Contains(Lower(query), "apple")

\* SerpAPI without the return of line 64
TrySerpapi_no_return ==
    /\ s_pc = "serpapi"
    /\ IF search_apis.serpapi
       THEN \E answer \in ApiAnswers :
              /\ _get_session
              /\ attempted' = Append(attempted, Attempt("serpapi", _search_serpapi(answer),
                                                <<Outcome(answer)>>))
       ELSE UNCHANGED <<session, clients, attempted>>
    /\ s_pc' = "google_custom"
    /\ UNCHANGED <<search_apis, s_query, s_caller, s_calls, s_result, agent_vars, main_vars>>

\* lines 59-64: SerpAPI, if its credential is configured
TrySerpapi ==
    /\ s_pc = "serpapi"
    /\ IF search_apis.serpapi
       THEN \E answer \in ApiAnswers :
              LET results == _search_serpapi(answer)
              IN  /\ _get_session
                  /\ attempted' = Append(attempted, Attempt("serpapi", results,
                                                        <<Outcome(answer)>>))
                  /\ IF results # <<>>
                     THEN SearchReturn(results)
                     ELSE s_pc' = "google_custom" /\ UNCHANGED s_result
       ELSE /\ s_pc' = "google_custom"
            /\ UNCHANGED <<session, clients, attempted, s_result>>
    /\ UNCHANGED <<search_apis, s_query, s_caller, s_calls, agent_vars, main_vars>>

\* lines 66-71: Google Custom Search, if its credentials are configured
TryGoogleCustom ==
    /\ s_pc = "google_custom"
    /\ IF search_apis.google_custom
       THEN \E answer \in ApiAnswers :
              LET results == _search_google_custom(answer)
              IN  /\ _get_session
                  /\ attempted' = Append(attempted, Attempt("google_custom", results,
                                                        <<Outcome(answer)>>))
                  /\ IF results # <<>>
                     THEN SearchReturn(results)
                     ELSE s_pc' = "duckduckgo" /\ UNCHANGED s_result
       ELSE /\ s_pc' = "duckduckgo"
            /\ UNCHANGED <<session, clients, attempted, s_result>>
    /\ UNCHANGED <<search_apis, s_query, s_caller, s_calls, agent_vars, main_vars>>

\* DuckDuckGo requested a second time when the first request gave nothing
TryDuckduckgo_retry ==
    /\ s_pc = "duckduckgo"
    /\ \E first, answer \in DdgAnswers :
         LET retried == _search_duckduckgo_html(first) = <<>>
             results == IF retried THEN _search_duckduckgo_html(answer)
                        ELSE _search_duckduckgo_html(first)
         IN  /\ _get_session
             /\ attempted' =
                    IF retried
                    THEN attempted \o <<Attempt("duckduckgo", <<>>, <<Outcome(first)>>),
                                        Attempt("duckduckgo", results, <<Outcome(answer)>>)>>
                    ELSE Append(attempted,
                                Attempt("duckduckgo", results, <<Outcome(first)>>))
             /\ IF results # <<>>
                THEN SearchReturn(results)
                ELSE s_pc' = "apple_direct" /\ UNCHANGED s_result
    /\ UNCHANGED <<search_apis, s_query, s_caller, s_calls, agent_vars, main_vars>>

\* lines 73-77: DuckDuckGo HTML scraping, always
TryDuckduckgo ==
    /\ s_pc = "duckduckgo"
    /\ \E answer \in DdgAnswers :
         LET results == _search_duckduckgo_html(answer)
         IN  /\ _get_session
             /\ attempted' = Append(attempted, Attempt("duckduckgo", results,
                                                   <<Outcome(answer)>>))
             /\ IF results # <<>>
                THEN SearchReturn(results)
                ELSE s_pc' = "apple_direct" /\ UNCHANGED s_result
    /\ UNCHANGED <<search_apis, s_query, s_caller, s_calls, agent_vars, main_vars>>

\* lines 79-84: Apple pages, for queries that mention ipad or apple
TryAppleDirect ==
    /\ s_pc = "apple_direct"
    /\ IF mentions_ipad_or_apple(s_query)
       THEN \E ok \in AppleAnswers :
              LET results == _search_apple_direct(ok)
              IN  /\ _get_session
                  /\ attempted' = Append(attempted, Attempt("apple_direct", results,
                                                        AppleOutcomes(ok)))
                  /\ IF results # <<>>
                     THEN SearchReturn(results)
                     ELSE s_pc' = "mock" /\ UNCHANGED s_result
       ELSE /\ s_pc' = "mock"
            /\ UNCHANGED <<session, clients, attempted, s_result>>
    /\ UNCHANGED <<search_apis, s_query, s_caller, s_calls, agent_vars, main_vars>>

\* lines 86-88: canned data
ReturnMock ==
    /\ s_pc = "mock"
    /\ LET results == _get_enhanced_mock_results(s_query)
       IN  /\ attempted' = Append(attempted, Attempt("mock", results, <<>>))
           /\ SearchReturn(results)
    /\ UNCHANGED <<search_apis, session, clients, s_query, s_caller, s_calls, agent_vars,
                   main_vars>>

SearchStep == TrySerpapi \/ TryGoogleCustom \/ TryDuckduckgo \/ TryAppleDirect \/ ReturnMock

\* a provider call of another search_real_time call that runs while the tracked one is
\* suspended: all it shares with the tracked call is self.session
overlapping_provider_call ==
    /\ s_pc \notin {"idle", "returned"}
    /\ s_caller = "tool"
    /\ _get_session
    /\ UNCHANGED <<search_apis, s_pc, s_query, s_caller, attempted, s_result, s_calls,
                   agent_vars, main_vars>>

\* WebSearchTool.close
close ==
    /\ s_pc \in {"idle", "returned"}
    /\ pq_pc = "idle"
    /\ session # 0
    /\ clients' = [clients EXCEPT ![session] = "closed"]
    /\ session' = 0
    /\ UNCHANGED <<search_apis, s_pc, s_query, s_caller, attempted, s_result, s_calls,
                   agent_vars, main_vars>>

(***************************************************************************)
(* Python dict: a set of <<key, value>> pairs with unique keys             *)
(***************************************************************************)
Keys(d) == {p[1] : p \in d}

Get(d, k) == (CHOOSE p \in d : p[1] = k)[2]

\* d.update(new)
Update(d, new) == {p \in d : p[1] \notin Keys(new)} \cup new

(***************************************************************************)
(* Information extractor (ipad_agent.py)                                   *)
(***************************************************************************)
\* re.findall(r'\$(\d{1,4}(?:,\d{3})*)', content), each match formatted back as f"${price}"
DollarAmounts == {"$799", "$1,099", "$599", "$449", "$499"}

IsDollarAmount(t) == t \in DollarAmounts

_extract_pricing(hit) ==
    LET prices == SelectSeq(hit.content, IsDollarAmount)
    IN  IF prices # <<>>
        THEN {<<"prices_found", prices>>, <<"source", hit.title>>}
        ELSE {}

_extract_specifications(hit) ==
    LET content == Lower(hit.content)
    IN  (IF Contains(content, "display")
         THEN {<<"display_info", <<"Display information found">> >>} ELSE {})
        \cup
        (IF Contains(content, "processor") \/ Contains(content, "chip")
         THEN {<<"processor_info", <<"Processor information found">> >>} ELSE {})

SpecTriggers == {"processor", "display", "storage", "ram", "battery"}

\* one iteration of the loop of _extract_relevant_info
ExtractOne(info, hit) ==
    LET content == Lower(hit.content)
        price_info == IF Contains(content, "price") \/ Contains(content, "cost")
                         \/ Contains(content, "$")
                      THEN _extract_pricing(hit) ELSE {}
        spec_info == IF \E k \in SpecTriggers : Contains(content, k)
                     THEN _extract_specifications(hit) ELSE {}
    IN  [info EXCEPT !.pricing = Update(@, price_info),
                     !.specifications = Update(@, spec_info)]

RECURSIVE ExtractLoop(_, _)
ExtractLoop(info, hits) ==
    IF hits = <<>> THEN info ELSE ExtractLoop(ExtractOne(info, Head(hits)), Tail(hits))

\* .lower() on a None content or title raises AttributeError
ExtractRaises(search_results) ==
    \E i \in 1..Len(Take(search_results, 10)) :
        search_results[i].content = None \/ search_results[i].title = None

relevant_info ==
    [key_facts |-> <<>>, specifications |-> {}, pricing |-> {},
     features |-> <<>>, troubleshooting |-> <<>>, comparisons |-> <<>>]

\* the returned dict, for search results on which the loop does not raise
_extract_relevant_info(search_results) ==
    LET info == ExtractLoop(relevant_info, Take(search_results, 10))
    IN  {<<k, info[k]>> : k \in DOMAIN info}

(***************************************************************************)
(* ResponseGenerator (response_generator.py)                               *)
(***************************************************************************)
GeneratorReplies == {<<"Answer">>, <<" ", "Answer", "\n">>, None, LLMRaise}

GeneratorFailed(reply) == reply = LLMRaise \/ reply = None

_get_type_emoji(query_type) ==
    IF query_type \in categories THEN <<"emoji", query_type>> ELSE <<>>

RECURSIVE Flatten(_)
Flatten(ss) == IF ss = <<>> THEN <<>> ELSE Head(ss) \o Flatten(Tail(ss))

IsValidSource(src) == src # <<>> /\ src # None /\ StartsWithHttp(src)

valid_sources(sources) == Take(SelectSeq(sources, IsValidSource), 3)

_format_response(response, sources, query_type) ==
    LET type_emoji == _get_type_emoji(query_type)
        stripped == Strip(response)
        valid == valid_sources(sources)
    IN  (IF type_emoji # <<>> THEN type_emoji \o <<" ">> ELSE <<>>)
        \o stripped
        \o (IF valid # <<>>
            THEN <<"\n\n", "Sources:">>
                 \o Flatten([i \in 1..Len(valid) |-> <<"\n", "[">> \o valid[i] \o <<"]">>])
            ELSE <<>>)
        \o <<"\n\n", "*Information current as of*">>

FallbackPrefix ==
    "I apologize, but I'm having trouble accessing the latest search results right now. "

fallback_responses == [c \in categories |-> <<"fallback sentence", c>>]

\* a fallback that ignores the category
_generate_fallback_general_only(query_type) ==
    <<FallbackPrefix>> \o fallback_responses["general"]

_generate_fallback_response(query_type) ==
    <<FallbackPrefix>>
    \o (IF query_type \in DOMAIN fallback_responses
        THEN fallback_responses[query_type]
        ELSE fallback_responses["general"])

generate_with_context(reply, query_type, sources) ==
    IF GeneratorFailed(reply)
    THEN _generate_fallback_response(query_type)
    ELSE _format_response(reply, sources, query_type)

generate(reply, query_type, sources) == generate_with_context(reply, query_type, sources)

(***************************************************************************)
(* iPadChatbotAgent: the workflow nodes (ipad_agent.py)                    *)
(***************************************************************************)
Queries == { <<"iPad", "Pro", "price">>, <<"screen", "problem">>, <<"Pencil">> }

initial_state(query) ==
    [query |-> query, query_type |-> "", search_results |-> <<>>, processed_info |-> {},
     response |-> <<>>, sources |-> <<>>, error |-> <<>>, metadata |-> {}]

_generate_search_queries(query, query_type) ==
    LET base_query == <<"Apple", "iPad">> \o query
        extra ==
          CASE query_type = "specifications" ->
                 << <<"Apple", "iPad">> \o query \o <<"specs", "technical", "specifications">>,
                    <<"iPad">> \o query \o <<"features", "processor", "display">> >>
            [] query_type = "pricing" ->
                 << <<"Apple", "iPad">> \o query \o <<"price", "cost">>,
                    <<"iPad">> \o query \o <<"pricing", "Apple", "Store">> >>
            [] query_type = "comparison" ->
                 << <<"Apple", "iPad">> \o query \o <<"comparison", "vs">>,
                    <<"iPad">> \o query \o <<"differences", "compare">> >>
            [] query_type = "troubleshooting" ->
                 << <<"iPad">> \o query \o <<"troubleshooting", "fix", "problem">>,
                    <<"iPad">> \o query \o <<"support", "help">> >>
            [] query_type = "availability" ->
                 << <<"Apple", "iPad">> \o query \o <<"availability", "in", "stock">>,
                    <<"iPad">> \o query \o <<"release", "date", "available">> >>
            [] OTHER -> <<>>
    IN  Take(<<base_query>> \o extra, 3)

\* a classify node reached by the exception of a failed classifier call
_classify_query_propagating(st, reply) ==
    IF ClassifierFailed(reply)
    THEN [st EXCEPT !.error = <<"Classification error: ", "llm">>]
    ELSE [st EXCEPT !.query_type = classify(reply),
                    !.metadata = {<<"classification_time", <<"now">> >>}]

\* _classify_query: the returned state, given the reply of the classifier's LLM call
_classify_query(st, reply) ==
    [st EXCEPT !.query_type = classify(reply),
               !.metadata = {<<"classification_time", <<"now">> >>}]

\* _generate_response: the returned state, given the reply of the generator's LLM call
_generate_response(st, reply) ==
    [st EXCEPT !.response = generate(reply, st.query_type, st.sources)]

NoneTypeLower == "'NoneType' object has no attribute 'lower'"

\* _process_information with an extractor that pops the hits it has processed
_process_information_consuming(st) ==
    IF ExtractRaises(st.search_results)
    THEN [st EXCEPT !.error = <<"Processing error: ", NoneTypeLower>>]
    ELSE [st EXCEPT
            !.processed_info = _extract_relevant_info(st.search_results),
            !.search_results = SubSeq(@, 11, Len(@)),
            !.sources = [i \in 1..Len(Take(st.search_results, 5)) |->
                            st.search_results[i].url]]

\* _process_information: the returned state
_process_information(st) ==
    IF ExtractRaises(st.search_results)
    THEN [st EXCEPT !.error = <<"Processing error: ", NoneTypeLower>>]
    ELSE [st EXCEPT
            !.processed_info = _extract_relevant_info(st.search_results),
            !.sources = [i \in 1..Len(Take(st.search_results, 5)) |->
                            st.search_results[i].url]]

ApologyPrefix == "I apologize, but I encountered an issue: "

\* _handle_error: the returned state
_handle_error(st) ==
    [st EXCEPT !.response =
        <<ApologyPrefix>> \o st.error
        \o <<". Please try rephrasing your question about iPads.">>]

_should_handle_error(st) == IF st.error # <<>> THEN "error" ELSE "continue"

(***************************************************************************)
(* The compiled LangGraph workflow (_build_workflow)                       *)
(***************************************************************************)
Nodes == {"classify_query", "search_web", "process_information", "generate_response",
          "handle_error"}

\* a workflow whose entry also fans out to the search stage
edges_fan_out ==
    { <<"__start__", "classify_query">>,
      <<"__start__", "search_web">>,
      <<"classify_query", "search_web">>,
      <<"search_web", "process_information">>,
      <<"process_information", "generate_response">>,
      <<"generate_response", "__end__">>,
      <<"handle_error", "__end__">> }

\* add_edge(...)
edges ==
    { <<"__start__", "classify_query">>,
      <<"classify_query", "search_web">>,
      <<"search_web", "process_information">>,
      <<"process_information", "generate_response">>,
      <<"generate_response", "__end__">>,
      <<"handle_error", "__end__">> }

\* add_conditional_edges(source, _should_handle_error, path_map)
branch_sources == {"classify_query", "search_web", "process_information"}

path_map(source) ==
    [p \in {"continue", "error"} |->
        IF p = "error" THEN "handle_error"
        ELSE CASE source = "classify_query" -> "search_web"
               [] source = "search_web" -> "process_information"
               [] source = "process_information" -> "generate_response"]

\* a workflow in which a node with a conditional edge has no plain edge beside it
SuccessorsBranchOnly(node, st) ==
    IF node \in branch_sources
    THEN {path_map(node)[_should_handle_error(st)]}
    ELSE {e[2] : e \in {d \in edges : d[1] = node}}

\* the nodes a finished node triggers for the next superstep: the targets of its
\* plain edges together with the target its conditional edge selects
Successors(node, st) ==
    {e[2] : e \in {d \in edges : d[1] = node}}
    \cup (IF node \in branch_sources
          THEN {path_map(node)[_should_handle_error(st)]}
          ELSE {})

Event(kind, node) == <<kind, node>>

\* a node returns `st` to the engine
NodeReturns(node, st) ==
    /\ running' = running \ {node}
    /\ writes' = writes \cup {[node |-> node, st |-> st]}

\* search_real_time entered on behalf of _search_web (line 147)
SearchWebCalls(query) ==
    /\ s_pc' = "serpapi"
    /\ s_query' = query
    /\ s_caller' = "search_web"
    /\ attempted' = <<>>

\* process_query, lines 300-314: build initial_state and await workflow.ainvoke
process_query(query) ==
    /\ pq_pc = "idle"
    /\ s_pc = "idle"
    /\ pq_pc' = "invoked"
    /\ state' = initial_state(query)
    /\ triggered' = Successors("__start__", initial_state(query))
    /\ running' = {}
    /\ writes' = {}
    /\ trace' = <<>>
    /\ llm_replies' = {}
    /\ UNCHANGED <<sw_queries, sw_results, result, tool_vars, main_vars>>

\* _classify_query up to its awaited classifier call
StartClassify ==
    /\ pq_pc = "invoked"
    /\ "classify_query" \in triggered
    /\ triggered' = triggered \ {"classify_query"}
    /\ running' = running \cup {"classify_query"}
    /\ trace' = Append(trace, Event("start", "classify_query"))
    /\ UNCHANGED <<pq_pc, state, writes, sw_queries, sw_results, llm_replies, result,
                   tool_vars, main_vars>>

\* _classify_query from the classifier's answer on.  QueryClassifier.classify catches
\* every exception of its LLM call, so the except branch of the node (lines 135-138)
\* has nothing to catch.
FinishClassify ==
    /\ pq_pc = "invoked"
    /\ "classify_query" \in running
    /\ \E reply \in ClassifierReplies :
         /\ NodeReturns("classify_query", _classify_query(state, reply))
         /\ llm_replies' = llm_replies \cup {<<"classifier", reply>>}
    /\ trace' = Append(trace, Event("end", "classify_query"))
    /\ UNCHANGED <<pq_pc, state, triggered, sw_queries, sw_results, result,
                   tool_vars, main_vars>>

\* extend that skips the hits already in the list
extend_unique(search_results, results) ==
    search_results \o SelectSeq(results, LAMBDA hit :
                                   \A i \in 1..Len(search_results) : search_results[i] # hit)

\* search_results.extend(results), line 148
extend(search_results, results) == search_results \o results

\* _search_web up to its first awaited search
StartSearchWeb ==
    /\ pq_pc = "invoked"
    /\ "search_web" \in triggered
    /\ s_pc \in {"idle", "returned"}
    /\ triggered' = triggered \ {"search_web"}
    /\ running' = running \cup {"search_web"}
    /\ trace' = Append(trace, Event("start", "search_web"))
    /\ LET search_queries == _generate_search_queries(state.query, state.query_type)
       IN  /\ sw_queries' = Tail(search_queries)
           /\ sw_results' = <<>>
           /\ SearchWebCalls(Head(search_queries))
    /\ UNCHANGED <<pq_pc, state, writes, llm_replies, result, search_apis, session, clients,
                   s_result, s_calls, main_vars>>

\* _search_web when an awaited search returns: extend, then search the next variant
\* or return.  WebSearchTool.search catches every exception of its providers, so the
\* except branch of the node (lines 154-157) has nothing to catch.
SearchWebResume ==
    /\ pq_pc = "invoked"
    /\ "search_web" \in running
    /\ s_pc = "returned"
    /\ s_caller = "search_web"
    /\ sw_results' = extend(sw_results, s_result)
    /\ IF sw_queries # <<>>
       THEN /\ SearchWebCalls(Head(sw_queries))
            /\ sw_queries' = Tail(sw_queries)
            /\ UNCHANGED <<running, writes, trace>>
       ELSE /\ s_pc' = "idle"
            /\ NodeReturns("search_web", [state EXCEPT !.search_results = sw_results'])
            /\ trace' = Append(trace, Event("end", "search_web"))
            /\ UNCHANGED <<sw_queries, s_query, s_caller, attempted>>
    /\ UNCHANGED <<pq_pc, state, triggered, llm_replies, result, search_apis, session, clients,
                   s_result, s_calls, main_vars>>

\* _process_information: no await inside, runs to its return
ProcessInformation ==
    /\ pq_pc = "invoked"
    /\ "process_information" \in triggered
    /\ triggered' = triggered \ {"process_information"}
    /\ writes' = writes \cup {[node |-> "process_information",
                               st |-> _process_information(state)]}
    /\ trace' = trace \o <<Event("start", "process_information"),
                           Event("end", "process_information")>>
    /\ UNCHANGED <<pq_pc, state, running, sw_queries, sw_results, llm_replies, result,
                   tool_vars, main_vars>>

\* _generate_response up to its awaited LLM call
StartGenerate ==
    /\ pq_pc = "invoked"
    /\ "generate_response" \in triggered
    /\ triggered' = triggered \ {"generate_response"}
    /\ running' = running \cup {"generate_response"}
    /\ trace' = Append(trace, Event("start", "generate_response"))
    /\ UNCHANGED <<pq_pc, state, writes, sw_queries, sw_results, llm_replies, result,
                   tool_vars, main_vars>>

\* _generate_response from the LLM's answer on.  ResponseGenerator.generate catches
\* every exception of its LLM call, so the except branch of the node (lines 192-195)
\* has nothing to catch.
FinishGenerate ==
    /\ pq_pc = "invoked"
    /\ "generate_response" \in running
    /\ \E reply \in GeneratorReplies :
         /\ NodeReturns("generate_response", _generate_response(state, reply))
         /\ llm_replies' = llm_replies \cup {<<"generator", reply>>}
    /\ trace' = Append(trace, Event("end", "generate_response"))
    /\ UNCHANGED <<pq_pc, state, triggered, sw_queries, sw_results, result,
                   tool_vars, main_vars>>

\* _handle_error: no await inside, runs to its return
HandleError ==
    /\ pq_pc = "invoked"
    /\ "handle_error" \in triggered
    /\ triggered' = triggered \ {"handle_error"}
    /\ writes' = writes \cup {[node |-> "handle_error", st |-> _handle_error(state)]}
    /\ trace' = trace \o <<Event("start", "handle_error"), Event("end", "handle_error")>>
    /\ UNCHANGED <<pq_pc, state, running, sw_queries, sw_results, llm_replies, result,
                   tool_vars, main_vars>>

\* The engine ends a superstep when every node it started has returned.  Every node
\* returns the whole AgentState and no key of AgentState has a reducer, so two nodes in
\* one superstep make the update invalid and ainvoke raises InvalidUpdateError.
\* Otherwise the returned state is stored and the node's successors are scheduled.
Superstep ==
    /\ pq_pc = "invoked"
    /\ triggered = {}
    /\ running = {}
    /\ writes # {}
    /\ writes' = {}
    /\ IF Cardinality(writes) > 1
       THEN /\ pq_pc' = "raised"
            /\ UNCHANGED <<state, triggered>>
       ELSE LET w == CHOOSE w \in writes : TRUE
                next == Successors(w.node, w.st) \ {"__end__"}
            IN  /\ state' = w.st
                /\ triggered' = next
                /\ pq_pc' = IF next = {} THEN "ended" ELSE "invoked"
    /\ UNCHANGED <<running, sw_queries, sw_results, trace, llm_replies, result,
                   tool_vars, main_vars>>

GenericApology ==
    "I apologize, but I'm having trouble processing your request right now. Please try again."

InvalidUpdateError == "Can receive only one value per step."

\* process_query, lines 316-330: the return after ainvoke, or the except branch
ProcessQueryReturn ==
    /\ pq_pc \in {"ended", "raised"}
    /\ pq_pc' = "returned"
    /\ result' = IF pq_pc = "ended"
                 THEN [response |-> state.response, sources |-> state.sources,
                       query_type |-> state.query_type, metadata |-> state.metadata]
                 ELSE [response |-> <<GenericApology>>, sources |-> <<>>,
                       query_type |-> "error",
                       metadata |-> {<<"error", <<InvalidUpdateError>> >>}]
    /\ UNCHANGED <<state, triggered, running, writes, sw_queries, sw_results, trace,
                   llm_replies, tool_vars, main_vars>>

(***************************************************************************)
(* main.py: ConversationSession, the session store and the HTTP handlers   *)
(***************************************************************************)
SESSION_TIMEOUT == 24

\* ConversationSession.__init__
ConversationSession(session_id) ==
    [session_id |-> session_id, messages |-> <<>>, created_at |-> now,
     last_activity |-> now]

\* add_message that keeps only the newest message
add_message_capped(s, role, content) ==
    [s EXCEPT !.messages = <<[role |-> role, content |-> content, timestamp |-> now]>>,
              !.last_activity = now]

\* ConversationSession.add_message: the session after the append.  content is the
\* number of the /chat request the turn belongs to.
add_message(s, role, content) ==
    [s EXCEPT !.messages = Append(@, [role |-> role, content |-> content,
                                      timestamp |-> now]),
              !.last_activity = now]

\* an expiry test that already fires at the end of the window
is_expired_inclusive(s) == now - s.last_activity >= SESSION_TIMEOUT

\* ConversationSession.is_expired
is_expired(s) == now - s.last_activity > SESSION_TIMEOUT

\* the dict d without the keys in `gone`
Without(d, gone) == [k \in (DOMAIN d) \ gone |-> d[k]]

\* cleanup_expired_sessions: the dict after the sweep
cleanup_expired_sessions ==
    LET expired_sessions ==
          {sid \in DOMAIN user_sessions : is_expired(heap[user_sessions[sid]])}
    IN  Without(user_sessions, expired_sessions)

\* the objects still referenced by the dict; the others are garbage
Live(h, store) == [ref \in {store[k] : k \in DOMAIN store} |-> h[ref]]

\* str(uuid.uuid4()): a value never drawn before
uuid4 == uuids + 1

\* session ids a client can send: every id the server may hand out, whether or not it
\* has been handed out yet or is still in the store
ClientIds == 1..MaxSessions

\* what a handler answers: the HTTP status and the fields of the JSON body the model
\* looks at; a field the handler does not send keeps its empty value
Response(op, status, sid, listed, count) ==
    [op |-> op, status |-> status, session_id |-> sid, sessions |-> listed,
     message_count |-> count, detail |-> <<>>, body_status |-> "",
     agent_status |-> "", query_type |-> "", has_context |-> FALSE, n_results |-> 0]

\* raise HTTPException(status_code=status, detail=detail)
HTTPException(op, status, detail) ==
    [Response(op, status, 0, {}, 0) EXCEPT !.detail = detail]

SessionNotFound == <<"Session not found">>

AgentNotInitialized == <<"Agent not initialized">>

AgentNotInitializedChat ==
    <<"Agent not initialized. Please check server logs and ensure GROQ_API_KEY is set.">>

\* str(e) of the AttributeError raised by the lookup of line 235
NoSuchMethod == "'iPadChatbotAgent' object has no attribute 'process_query_with_context'"

\* str(e) of the TypeError raised by content[:300] on a hit whose content is None
NoneTypeSubscript == "'NoneType' object is not subscriptable"

NoResponse == Response("none", 0, 0, {}, 0)

\* GET /health
health_check ==
    /\ user_sessions' = cleanup_expired_sessions
    /\ heap' = Live(heap, user_sessions')
    /\ resp' = [Response("health", 200, 0, {}, 0)
                  EXCEPT !.body_status = "healthy",
                         !.agent_status = IF agent THEN "healthy" ELSE "not_initialized"]
    /\ UNCHANGED <<agent, uuids, chat_count, now, tool_vars, agent_vars>>

\* POST /session/create
create_session ==
    /\ uuid4 <= MaxSessions
    /\ LET session_id == uuid4
       IN  /\ uuids' = session_id
           /\ heap' = (session_id :> ConversationSession(session_id)) @@ heap
           /\ user_sessions' = (session_id :> session_id) @@ user_sessions
           /\ resp' = Response("create_session", 200, session_id, {}, 0)
    /\ UNCHANGED <<agent, chat_count, now, tool_vars, agent_vars>>

\* a lookup that sweeps the expired sessions first
get_session_sweeping(session_id) ==
    /\ user_sessions' = cleanup_expired_sessions
    /\ heap' = Live(heap, user_sessions')
    /\ IF session_id \notin DOMAIN user_sessions'
       THEN resp' = HTTPException("get_session", 404, SessionNotFound)
       ELSE LET s == heap[user_sessions[session_id]]
            IN  resp' = Response("get_session", 200, session_id, {}, Len(s.messages))
    /\ UNCHANGED <<agent, uuids, chat_count, now, tool_vars, agent_vars>>

\* GET /session/{session_id}
get_session(session_id) ==
    /\ IF session_id \notin DOMAIN user_sessions
       THEN resp' = HTTPException("get_session", 404, SessionNotFound)
       ELSE LET s == heap[user_sessions[session_id]]
            IN  resp' = Response("get_session", 200, session_id, {}, Len(s.messages))
    /\ UNCHANGED <<agent, user_sessions, heap, uuids, chat_count, now,
                   tool_vars, agent_vars>>

\* DELETE that answers 200 whether or not the id is in the store
delete_session_idempotent(session_id) ==
    /\ user_sessions' = Without(user_sessions, {session_id})
    /\ heap' = Live(heap, user_sessions')
    /\ resp' = Response("delete_session", 200, session_id, {}, 0)
    /\ UNCHANGED <<agent, uuids, chat_count, now, tool_vars, agent_vars>>

\* DELETE /session/{session_id}
delete_session(session_id) ==
    /\ IF session_id \notin DOMAIN user_sessions
       THEN /\ resp' = HTTPException("delete_session", 404, SessionNotFound)
            /\ UNCHANGED <<user_sessions, heap>>
       ELSE /\ user_sessions' = Without(user_sessions, {session_id})
            /\ heap' = Live(heap, user_sessions')
            /\ resp' = Response("delete_session", 200, session_id, {}, 0)
    /\ UNCHANGED <<agent, uuids, chat_count, now, tool_vars, agent_vars>>

\* GET /sessions
list_sessions ==
    /\ user_sessions' = cleanup_expired_sessions
    /\ heap' = Live(heap, user_sessions')
    /\ resp' = Response("list_sessions", 200, 0, DOMAIN user_sessions',
                        Cardinality(DOMAIN user_sessions'))
    /\ UNCHANGED <<agent, uuids, chat_count, now, tool_vars, agent_vars>>

\* a /chat whose except branch undoes what the request did to the store
chat_rolling_back(session_id) ==
    /\ chat_count < MaxChats
    /\ IF ~agent
       THEN /\ resp' = HTTPException("chat", 503, AgentNotInitializedChat)
            /\ UNCHANGED chat_count
       ELSE /\ chat_count' = chat_count + 1
            /\ resp' = HTTPException("chat", 500,
                                      <<"Failed to process query: ", NoSuchMethod>>)
    /\ UNCHANGED <<agent, user_sessions, heap, uuids, now, tool_vars, agent_vars>>

\* a /chat that treats a session past the inactivity window as not in the store
chat_expiring(session_id) ==
    /\ chat_count < MaxChats
    /\ IF ~agent
       THEN /\ resp' = HTTPException("chat", 503, AgentNotInitializedChat)
            /\ UNCHANGED <<user_sessions, heap, uuids, chat_count>>
       ELSE LET r == chat_count + 1
            IN  /\ chat_count' = r
                /\ resp' = HTTPException("chat", 500,
                                          <<"Failed to process query: ", NoSuchMethod>>)
                /\ IF \/ session_id = 0
                      \/ session_id \notin DOMAIN user_sessions
                      \/ is_expired(heap[user_sessions[session_id]])
                   THEN /\ uuid4 <= MaxSessions
                        /\ LET new_id == uuid4
                           IN  /\ uuids' = new_id
                               /\ heap' = (new_id :> add_message(ConversationSession(new_id),
                                                                 "user", r)) @@ heap
                               /\ user_sessions' = (new_id :> new_id) @@ user_sessions
                   ELSE LET ref == user_sessions[session_id]
                        IN  /\ heap' = [heap EXCEPT ![ref] = add_message(@, "user", r)]
                            /\ UNCHANGED <<user_sessions, uuids>>
    /\ UNCHANGED <<agent, now, tool_vars, agent_vars>>

\* POST /chat.  session_id 0 is a request without session_id.  The handler gets or
\* creates the session and appends the user turn (lines 218-229); then the lookup of
\* agent.process_query_with_context (line 235) raises AttributeError, because
\* iPadChatbotAgent defines process_query only, before anything is awaited, and the
\* except branch (lines 257-262) answers 500.
chat(session_id) ==
    /\ chat_count < MaxChats
    /\ IF ~agent
       THEN /\ resp' = HTTPException("chat", 503, AgentNotInitializedChat)
            /\ UNCHANGED <<user_sessions, heap, uuids, chat_count>>
       ELSE LET r == chat_count + 1
            IN  /\ chat_count' = r
                /\ resp' = HTTPException("chat", 500,
                                          <<"Failed to process query: ", NoSuchMethod>>)
                /\ IF session_id = 0 \/ session_id \notin DOMAIN user_sessions
                   THEN /\ uuid4 <= MaxSessions
                        /\ LET new_id == uuid4
                           IN  /\ uuids' = new_id
                               /\ heap' = (new_id :> add_message(ConversationSession(new_id),
                                                                 "user", r)) @@ heap
                               /\ user_sessions' = (new_id :> new_id) @@ user_sessions
                   ELSE LET ref == user_sessions[session_id]
                        IN  /\ heap' = [heap EXCEPT ![ref] = add_message(@, "user", r)]
                            /\ UNCHANGED <<user_sessions, uuids>>
    /\ UNCHANGED <<agent, now, tool_vars, agent_vars>>

\* the results that come first when a provider's results are tried before `rest`
OrElse(results, rest) ==
    (results \ {<<>>}) \cup (IF <<>> \in results THEN rest ELSE {})

\* search_real_time as a whole: every value one call on `query` can return, over what
\* the providers can answer
search_real_time(query) ==
    LET serpapi == IF search_apis.serpapi
                   THEN {_search_serpapi(answer) : answer \in ApiAnswers} ELSE {<<>>}
        google_custom == IF search_apis.google_custom
                         THEN {_search_google_custom(answer) : answer \in ApiAnswers}
                         ELSE {<<>>}
        duckduckgo == {_search_duckduckgo_html(answer) : answer \in DdgAnswers}
        apple_direct == IF mentions_ipad_or_apple(query)
                        THEN {_search_apple_direct(ok) : ok \in AppleAnswers} ELSE {<<>>}
    IN  OrElse(serpapi, OrElse(google_custom, OrElse(duckduckgo,
            OrElse(apple_direct, {_get_enhanced_mock_results(query)}))))

ModelsQuery ==
    <<"Apple", "iPad", "models", "2024", "2025", "current", "lineup", "specifications">>

PricingQuery ==
    <<"Apple", "iPad", "pricing", "cost", "2024", "2025", "Apple", "Store", "current",
      "prices">>

\* the body shared by get_ipad_models and get_ipad_pricing: 503 without an agent; else
\* one search, then content[:n] of the first 5 hits, which raises on a None content
ipad_endpoint(op, query, failed) ==
    IF ~agent
    THEN /\ resp' = HTTPException(op, 503, AgentNotInitialized)
         /\ UNCHANGED <<session, clients>>
    ELSE \E search_results \in search_real_time(query) :
           LET shown == Take(search_results, 5)
           IN  /\ _get_session
               /\ resp' = IF \E i \in 1..Len(shown) : shown[i].content = None
                          THEN HTTPException(op, 500, <<failed, NoneTypeSubscript>>)
                          ELSE [Response(op, 200, 0, {}, 0) EXCEPT !.n_results = Len(shown)]

\* GET /ipad/models
get_ipad_models ==
    /\ ipad_endpoint("get_ipad_models", ModelsQuery, "Failed to get models: ")
    /\ UNCHANGED <<search_apis, s_pc, s_query, s_caller, attempted, s_result, s_calls,
                   agent_vars, agent, user_sessions, heap, uuids, chat_count, now>>

\* GET /ipad/pricing
get_ipad_pricing ==
    /\ ipad_endpoint("get_ipad_pricing", PricingQuery, "Failed to get pricing: ")
    /\ UNCHANGED <<search_apis, s_pc, s_query, s_caller, attempted, s_result, s_calls,
                   agent_vars, agent, user_sessions, heap, uuids, chat_count, now>>

\* a context that leaves out the newest message
get_conversation_context_skip_last(s) ==
    LET n == Len(s.messages)
        context_messages == IF n > 6 THEN SubSeq(s.messages, n - 6, n - 1)
                            ELSE SubSeq(s.messages, 1, n - 1)
    IN  [i \in 1..Len(context_messages) |->
            <<IF context_messages[i].role = "user" THEN "User" ELSE "Assistant",
              context_messages[i].content>>]

\* ConversationSession.get_conversation_context: "" without messages, else the last 6
\* messages as "User: ..." / "Assistant: ..." lines
get_conversation_context(s) ==
    LET n == Len(s.messages)
        context_messages == IF n > 6 THEN SubSeq(s.messages, n - 5, n) ELSE s.messages
    IN  [i \in 1..Len(context_messages) |->
            <<IF context_messages[i].role = "user" THEN "User" ELSE "Assistant",
              context_messages[i].content>>]

\* POST /classify.  session_id 0 is a request without session_id.
classify_query(session_id) ==
    /\ IF ~agent
       THEN resp' = HTTPException("classify_query", 503, AgentNotInitialized)
       ELSE \E reply \in ClassifierReplies :
              LET conversation_context ==
                      IF session_id # 0 /\ session_id \in DOMAIN user_sessions
                      THEN get_conversation_context(heap[user_sessions[session_id]])
                      ELSE <<>>
              IN  resp' = [Response("classify_query", 200, session_id, {}, 0)
                             EXCEPT !.query_type = classify_with_context(reply),
                                    !.has_context = conversation_context # <<>>]
    /\ UNCHANGED <<agent, user_sessions, heap, uuids, chat_count, now,
                   tool_vars, agent_vars>>

\* time passes
Tick ==
    /\ now + TickHours <= MaxClock
    /\ now' = now + TickHours
    /\ resp' = NoResponse
    /\ UNCHANGED <<agent, user_sessions, heap, uuids, chat_count,
                   tool_vars, agent_vars>>

(***************************************************************************)
(* Specifications                                                          *)
(***************************************************************************)
InitTool ==
    /\ session = 0
    /\ clients = <<>>
    /\ s_pc = "idle"
    /\ s_query = <<>>
    /\ s_caller = "tool"
    /\ attempted = <<>>
    /\ s_result = <<>>
    /\ s_calls = 0

InitAgent ==
    /\ pq_pc = "idle"
    /\ state = initial_state(<<>>)
    /\ triggered = {}
    /\ running = {}
    /\ writes = {}
    /\ sw_queries = <<>>
    /\ sw_results = <<>>
    /\ trace = <<>>
    /\ llm_replies = {}
    /\ result = [response |-> <<>>, sources |-> <<>>, query_type |-> "", metadata |-> {}]

InitMain ==
    /\ user_sessions = <<>>
    /\ heap = <<>>
    /\ uuids = 0
    /\ chat_count = 0
    /\ now = 0
    /\ resp = NoResponse

\* WebSearchTool.__init__ reads the credentials; lifespan has initialized the agent
Init ==
    /\ search_apis \in [serpapi : BOOLEAN, google_custom : BOOLEAN]
    /\ agent = TRUE
    /\ InitTool /\ InitAgent /\ InitMain

\* lifespan: the agent is initialized, or None when the key is missing or
\* initialize() raised
InitSessions ==
    /\ search_apis = [serpapi |-> FALSE, google_custom |-> FALSE]
    /\ agent \in BOOLEAN
    /\ InitTool /\ InitAgent /\ InitMain

\* one process_query call, from the call to its return
Next ==
    \/ \E query \in Queries : process_query(query)
    \/ StartClassify
    \/ FinishClassify
    \/ StartSearchWeb
    \/ SearchStep
    \/ SearchWebResume
    \/ ProcessInformation
    \/ StartGenerate
    \/ FinishGenerate
    \/ HandleError
    \/ Superstep
    \/ ProcessQueryReturn

Spec == Init /\ [][Next]_vars

\* the search tool called directly, as the /ipad endpoints and its own callers do
NextSearch ==
    \/ \E query \in SearchQueries : search(query)
    \/ SearchStep
    \/ overlapping_provider_call
    \/ close

SpecSearch == Init /\ [][NextSearch]_vars

\* the HTTP handlers of main.py on the session store
NextSessions ==
    \/ health_check
    \/ create_session
    \/ \E session_id \in ClientIds : get_session(session_id)
    \/ \E session_id \in ClientIds : delete_session(session_id)
    \/ list_sessions
    \/ \E session_id \in {0} \cup ClientIds : chat(session_id)
    \/ get_ipad_models
    \/ get_ipad_pricing
    \/ \E session_id \in {0} \cup ClientIds : classify_query(session_id)
    \/ Tick

SpecSessions == InitSessions /\ [][NextSessions]_vars

(***************************************************************************)
(* Properties of process_query                                             *)
(***************************************************************************)
ResultKeys == {"response", "sources", "query_type", "metadata"}

\* the three apology sentences the code can put into a response
IsApology(response) ==
    response # <<>> /\ Head(response) \in {GenericApology, ApologyPrefix, FallbackPrefix}

\* the `error` category tag of a result
ErrorTag(r) == r.query_type = "error" /\ "error" \in Keys(r.metadata)

\* the components whose LLM call failed during this request
llm_failed ==
    {p[1] : p \in {q \in llm_replies :
                       \/ q[1] = "classifier" /\ ClassifierFailed(q[2])
                       \/ q[1] = "generator" /\ GeneratorFailed(q[2])}}

Started(node) == \E i \in 1..Len(trace) : trace[i] = Event("start", node)

Finished(node) == \E i \in 1..Len(trace) : trace[i] = Event("end", node)

\* the extraction stage ran and raised inside _extract_relevant_info
ExtractionFailed ==
    Finished("process_information") /\ ExtractRaises(state.search_results)

\* C1 (as stated): process_query returns a result with the four keys, and whenever the
\* classifier, the extraction, the generation or the engine failed during the call the
\* response is an apology and the result carries the error tag.
C1_AnyFailureTagged ==
    pq_pc = "returned" =>
        /\ DOMAIN result = ResultKeys
        /\ (llm_failed # {} \/ ExtractionFailed) =>
               IsApology(result.response) /\ ErrorTag(result)

\* C1 (amended): process_query never raises: a call whose workflow ended or raised
\* can always return, and what it returns has exactly the keys response, sources,
\* query_type and metadata.  When the extraction stage failed the engine raises and the
\* result is the generic apology with query_type "error" and the exception under
\* metadata["error"].  In every other call, a failed classifier or generator LLM
\* included, the result carries no error tag: its query_type is one of the ten
\* categories and its response is the generator's text.
C1_NeverRaises ==
    /\ pq_pc \in {"ended", "raised"} => ENABLED ProcessQueryReturn
    /\ pq_pc = "returned" =>
        /\ DOMAIN result = ResultKeys
        /\ IF ExtractionFailed
           THEN /\ result.response = <<GenericApology>>
                /\ result.sources = <<>>
                /\ ErrorTag(result)
           ELSE /\ result.query_type \in categories
                /\ "error" \notin Keys(result.metadata)
                /\ result.response = state.response
                /\ result.response # <<>>
                /\ Head(result.response) \notin {GenericApology, ApologyPrefix}

\* a call returned after its extraction stage failed
C1_Witness ==
    pq_pc = "returned" /\ ExtractionFailed /\ result.query_type = "error"

(***************************************************************************)
(* Properties of the workflow                                              *)
(***************************************************************************)
Stages == <<"classify_query", "search_web", "process_information", "generate_response">>

StageSet == {Stages[i] : i \in 1..Len(Stages)}

\* C2 (as stated): once a stage has left a non-empty error in the workflow state, the
\* only node that runs is the error handler, no later stage is scheduled or in
\* progress, and the call ends with the stored error wrapped in the apology sentence.
C2_ErrorRouting ==
    state.error # <<>> =>
        /\ pq_pc = "invoked" => (triggered \cup running) \subseteq {"handle_error"}
        /\ ~Started("generate_response")
        /\ pq_pc = "returned" => result.response = _handle_error(state).response

IsStageEvent(e) == e[2] \in StageSet

\* start and end of each stage, in pipeline order
StageEvents ==
    Flatten([i \in 1..Len(Stages) |->
                <<Event("start", Stages[i]), Event("end", Stages[i])>>])

\* C3: within one process_query call the events of the stages classify, search,
\* extract and generate are a prefix of start/end classify, start/end search,
\* start/end extract, start/end generate: a stage starts only after the previous one
\* has finished, each runs at most once, and at most one of them is in progress.
C3_StrictOrder ==
    /\ LET seen == SelectSeq(trace, IsStageEvent)
       IN  /\ Len(seen) <= Len(StageEvents)
           /\ seen = SubSeq(StageEvents, 1, Len(seen))
    /\ Cardinality(running \cap StageSet) <= 1

\* a call in which all four stages ran to their end
C3_Witness ==
    pq_pc = "returned" /\ Finished("generate_response") /\ Len(trace) = Len(StageEvents)

(***************************************************************************)
(* Properties of the classifier                                            *)
(***************************************************************************)
\* the query_type the classify stage returned, before or after the engine stored it
ClassifiedAs ==
    IF \E w \in writes : w.node = "classify_query"
    THEN (CHOOSE w \in writes : w.node = "classify_query").st.query_type
    ELSE state.query_type

\* the reply, trimmed and lower-cased, is one label of the category set
IsLabel(reply) ==
    /\ reply \notin {None, LLMRaise}
    /\ Len(Lower(Strip(reply))) = 1
    /\ Lower(Strip(reply))[1] \in categories

\* C4: for every LLM outcome classify returns a member of the ten-label category set:
\* the reply trimmed and lower-cased when that is a member, "general" otherwise
\* (empty, multi-word or unknown reply, non-text content or a raised call).
C4_ClassifyInCategories ==
    \A p \in llm_replies :
        p[1] = "classifier" =>
            /\ ClassifiedAs \in categories
            /\ Cardinality(categories) = 10
            /\ IF IsLabel(p[2])
               THEN ClassifiedAs = Lower(Strip(p[2]))[1]
               ELSE ClassifiedAs = "general"

\* the reply " Pricing\n" was classified as pricing, and stored
C4_Witness ==
    /\ <<"classifier", <<" ", "Pricing", "\n">> >> \in llm_replies
    /\ state.query_type = "pricing"

(***************************************************************************)
(* Properties of WebSearchTool.search                                      *)
(***************************************************************************)
Providers == <<"serpapi", "google_custom", "duckduckgo", "apple_direct", "mock">>

Rank(provider) == CHOOSE i \in 1..Len(Providers) : Providers[i] = provider

\* the `source` a provider stamps on its hits
SourcesOf(provider) ==
    CASE provider = "serpapi" -> {"serpapi_google"}
      [] provider = "google_custom" -> {"google_custom"}
      [] provider = "duckduckgo" -> {"duckduckgo_html"}
      [] provider = "apple_direct" -> {"apple_official"}
      [] provider = "mock" -> MockSources

Tried(provider) == \E i \in 1..Len(attempted) : attempted[i].provider = provider

\* the provider was attempted in this call and produced no hit
TriedEmpty(provider) ==
    \E i \in 1..Len(attempted) : attempted[i].provider = provider /\ attempted[i].n = 0

IsCanned(results) ==
    results # <<>> /\ \A i \in 1..Len(results) : results[i].source \in MockSources

\* C5: search never returns an empty list, and a call in which no live backend
\* produced a hit (each one failed, returned nothing or was not tried) returns the
\* canned fallback set, for every query and every combination of credentials.
C5_NeverEmpty ==
    s_pc = "returned" =>
        /\ s_result # <<>>
        /\ (\A i \in 1..Len(attempted) :
               attempted[i].provider # "mock" => attempted[i].n = 0)
           => IsCanned(s_result)

\* both credentials configured, every live backend tried and empty, canned set returned
C5_Witness ==
    /\ s_pc = "returned" /\ s_caller = "tool"
    /\ search_apis.serpapi /\ search_apis.google_custom
    /\ \A i \in 1..4 : TriedEmpty(Providers[i])
    /\ IsCanned(s_result)

\* C6: the providers are attempted in the fixed order primary API, secondary API,
\* unauthenticated search, direct scrape, canned data; an API only with its credential
\* configured; a provider only after every provider before it was skipped or came back
\* empty; none after a provider has produced hits; and what search returns is the hits
\* of that provider.
C6_FirstNonEmptyWins ==
    /\ \A i, j \in 1..Len(attempted) :
          i < j => /\ Rank(attempted[i].provider) < Rank(attempted[j].provider)
                   /\ attempted[i].n = 0
    /\ Tried("serpapi") => search_apis.serpapi
    /\ Tried("google_custom") => search_apis.google_custom
    /\ s_pc \notin {"idle", "returned"} =>
          \A i \in 1..Len(attempted) :
              /\ attempted[i].n = 0
              /\ Rank(attempted[i].provider) < Rank(s_pc)
    /\ s_pc = "returned" =>
          /\ attempted # <<>>
          /\ LET last == attempted[Len(attempted)]
             IN  /\ last.n > 0
                 /\ Len(s_result) = last.n
                 /\ \A i \in 1..Len(s_result) :
                        s_result[i].source \in SourcesOf(last.provider)
                 /\ search_apis.serpapi /\ Rank(last.provider) > 1 => TriedEmpty("serpapi")
                 /\ search_apis.google_custom /\ Rank(last.provider) > 2
                        => TriedEmpty("google_custom")
                 /\ Rank(last.provider) > 3 => TriedEmpty("duckduckgo")

\* the primary API came back empty and the secondary API's hits were returned
C6_Witness ==
    /\ s_pc = "returned" /\ s_caller = "tool"
    /\ Len(attempted) = 2
    /\ attempted[1].provider = "serpapi" /\ attempted[1].n = 0
    /\ attempted[2].provider = "google_custom" /\ attempted[2].n = Len(s_result)
    /\ s_result # <<>>

\* C7 (as stated): a canned result set implies that every live method available to the
\* tool (each configured API, the unauthenticated search and the direct scrape) was
\* attempted during the call and produced no hit.
C7_CannedOnlyAfterAllLive ==
    s_pc = "returned" /\ IsCanned(s_result) =>
        /\ search_apis.serpapi => TriedEmpty("serpapi")
        /\ search_apis.google_custom => TriedEmpty("google_custom")
        /\ TriedEmpty("duckduckgo")
        /\ TriedEmpty("apple_direct")

\* C7 (amended): a canned result set implies that each configured API and the
\* unauthenticated search were attempted during the call and produced no hit, and that
\* the direct scrape was attempted and produced no hit when the query, lower-cased,
\* contains "ipad" or "apple"; for any other query the direct scrape is not attempted.
C7_CannedAfterLiveForQuery ==
    s_pc = "returned" /\ IsCanned(s_result) =>
        /\ search_apis.serpapi => TriedEmpty("serpapi")
        /\ search_apis.google_custom => TriedEmpty("google_custom")
        /\ TriedEmpty("duckduckgo")
        /\ IF \E i \in 1..Len(s_query) :
                  TokHas(LowerTok(s_query[i]), "ipad") \/ TokHas(LowerTok(s_query[i]), "apple")
           THEN TriedEmpty("apple_direct")
           ELSE ~Tried("apple_direct")

\* "Apple Pencil" ended in canned data after the direct scrape found nothing
C7_Witness ==
    /\ s_pc = "returned" /\ s_caller = "tool"
    /\ s_query = <<"Apple", "Pencil">>
    /\ IsCanned(s_result)
    /\ TriedEmpty("apple_direct")

(***************************************************************************)
(* Properties of silent degradation                                        *)
(***************************************************************************)
\* the static fallback text of a category: the apology prefix and the category's
\* sentence, the general sentence for a category without an entry
ExpectedFallback(query_type) ==
    <<FallbackPrefix, "fallback sentence",
      IF query_type \in categories THEN query_type ELSE "general">>

C9_ClassifierFailureSilent ==
    "classifier" \in llm_failed =>
        /\ ClassifiedAs = "general"
        /\ \A w \in writes :
              w.node = "classify_query" =>
                  /\ w.st.error = <<>>
                  /\ _should_handle_error(w.st) = "continue"
                  /\ Successors(w.node, w.st) = {"search_web"}
        /\ ~Finished("process_information") =>
              /\ state.error = <<>>
              /\ "handle_error" \notin triggered
              /\ ~Started("handle_error")
              /\ pq_pc \notin {"raised", "ended", "returned"}
        /\ (\A w \in writes : w.node # "classify_query") =>
              "search_web" \in triggered \/ Started("search_web")

\* the classifier's call raised and the search stage is running on category general
C9_Witness ==
    /\ <<"classifier", LLMRaise>> \in llm_replies
    /\ state.query_type = "general"
    /\ "search_web" \in running

(***************************************************************************)
(* Properties of the session store                                         *)
(***************************************************************************)
\* hours since the last activity of the session stored under sid
IdleHours(sid) == now - heap[user_sessions[sid]].last_activity

\* the id was handed out and is no longer in the store
Removed(sid) == sid <= uuids /\ sid \notin DOMAIN user_sessions

\* C10: a housekeeping sweep (run by GET /health and GET /sessions) removes every
\* session idle for more than 24 hours, so that it is absent from the list_sessions
\* result, and keeps every session idle for 24 hours or less, untouched and listed; an
\* id that has left the store never returns to it, and a lookup by it answers 404.
C10_SweepExpires ==
    [][ /\ resp'.op \in {"health", "list_sessions"} =>
             \A sid \in DOMAIN user_sessions :
                 IF IdleHours(sid) > 24
                 THEN /\ sid \notin DOMAIN user_sessions'
                      /\ sid \notin resp'.sessions
                 ELSE /\ sid \in DOMAIN user_sessions'
                      /\ user_sessions'[sid] = user_sessions[sid]
                      /\ heap'[user_sessions'[sid]] = heap[user_sessions[sid]]
                      /\ resp'.op = "list_sessions" => sid \in resp'.sessions
        /\ \A sid \in ClientIds :
             Removed(sid) =>
                 /\ sid \notin DOMAIN user_sessions'
                 /\ get_session(sid) => resp'.status = 404
      ]_vars

\* a listing made 48 hours in: session 2, idle for exactly 24 hours, is listed, and
\* session 1, handed out before it, is not
C10_Witness ==
    /\ resp.op = "list_sessions" /\ resp.sessions = {2}
    /\ now - heap[user_sessions[2]].last_activity = 24
    /\ Removed(1)
    /\ now = MaxClock /\ uuids = 2

(***************************************************************************)
(* Properties of the /chat history                                         *)
(***************************************************************************)
\* the stored turns of the session stored under sid
Turns(sid) == heap[user_sessions[sid]].messages

UserTurns(sid) == {i \in 1..Len(Turns(sid)) : Turns(sid)[i].role = "user"}

C12_SourcesBounded ==
    pq_pc = "returned" =>
        /\ Len(result.sources) <= 3
        /\ \A i \in 1..Len(result.sources) :
              /\ result.sources[i] # <<>>
              /\ Head(result.sources[i]) \in {"http://", "https://"}

(***************************************************************************)
(* Properties of what a failure shows to the user                          *)
(***************************************************************************)
\* str(e) of the exceptions the code can raise
RawExceptionMessages ==
    {NoneTypeLower, InvalidUpdateError, NoSuchMethod, NoneTypeSubscript}

HasRawException(text) == \E i \in 1..Len(text) : text[i] \in RawExceptionMessages

\* C13 (as stated): on a pipeline failure the text shown to the user is an apology and
\* never contains the raw exception message: not in the response the error handler
\* builds, not in the result of process_query when the workflow fails, and not in the
\* error detail the /chat endpoint answers.
C13_NoRawExceptionShown ==
    /\ \A w \in writes : w.node = "handle_error" =>
          IsApology(w.st.response) /\ ~HasRawException(w.st.response)
    /\ pq_pc = "returned" /\ result.query_type = "error" =>
          IsApology(result.response) /\ ~HasRawException(result.response)
    /\ resp.op = "chat" /\ resp.status = 500 => ~HasRawException(resp.detail)

(***************************************************************************)
(* Properties of session lookup and delete                                 *)
(***************************************************************************)
StoredSession(store, h, sid) == h[store[sid]]

\* C14: a lookup or a delete of an id that is not in the store answers 404 "Session not
\* found", creates no session and leaves the store unchanged; a delete of an id that is
\* in the store removes exactly that session and leaves every other session unchanged.
C14_NotFoundAndDelete ==
    [][\A sid \in ClientIds :
          /\ (get_session(sid) \/ delete_session(sid)) /\ sid \notin DOMAIN user_sessions =>
                /\ resp'.status = 404 /\ resp'.detail = SessionNotFound
                /\ user_sessions' = user_sessions /\ heap' = heap /\ uuids' = uuids
          /\ delete_session(sid) /\ sid \in DOMAIN user_sessions =>
                /\ resp'.status = 200
                /\ DOMAIN user_sessions' = DOMAIN user_sessions \ {sid}
                /\ \A other \in DOMAIN user_sessions' :
                      StoredSession(user_sessions', heap', other)
                          = StoredSession(user_sessions, heap, other)]_vars

\* a delete of an unknown id was answered 404 while another session, with a turn in its
\* history, is in the store
C14_Witness ==
    /\ resp.op = "delete_session" /\ resp.status = 404
    /\ \E sid \in DOMAIN user_sessions : Len(StoredSession(user_sessions, heap, sid).messages) > 0

(***************************************************************************)
(* Properties of a server started without its agent                        *)
(***************************************************************************)
AgentEndpoints == {"chat", "classify_query", "get_ipad_models", "get_ipad_pricing"}

\* the part of C15 about the requests that need the agent: each is answered 503 and
\* leaves the session store as it was, and the agent stays uninitialized
RejectedWithoutAgent ==
    [][~agent =>
          /\ ~agent'
          /\ resp'.op \in AgentEndpoints =>
                resp'.status = 503 /\ UNCHANGED <<user_sessions, heap, uuids>>]_vars

\* C15 (as stated): when the agent is not initialized at startup it stays uninitialized,
\* the health report does not say the service is healthy, and every /chat, /classify,
\* /ipad/models and /ipad/pricing request is answered 503 without creating or modifying
\* a session.
C15_UnhealthyWithoutAgent ==
    [][~agent =>
          /\ ~agent'
          /\ resp'.op = "health" => resp'.body_status # "healthy"
          /\ resp'.op \in AgentEndpoints =>
                resp'.status = 503 /\ UNCHANGED <<user_sessions, heap, uuids>>]_vars

(***************************************************************************)
(* Properties of the extractor                                             *)
(***************************************************************************)
FactBagKeys ==
    {"key_facts", "specifications", "pricing", "features", "troubleshooting", "comparisons"}

\* the states process_information returned in this superstep without an error
Extracted == {w \in writes : w.node = "process_information" /\ w.st.error = <<>>}

HitSources(hits) == {hits[i].source : i \in 1..Len(hits)}

\* the request has returned and every search of it ended in the canned results
AllSearchesCanned ==
    /\ pq_pc = "returned"
    /\ state.search_results # <<>>
    /\ HitSources(state.search_results) \subseteq MockSources

\* C17 (as stated): for a query classified "troubleshooting" whose live searches all
\* return nothing, the canned troubleshooting result is the one used for the search
\* variants, the extractor yields empty specifications and empty pricing from it, and
\* the response text is not empty.
C17_TroubleshootingScenario ==
    AllSearchesCanned /\ state.query_type = "troubleshooting" /\ ~ExtractionFailed =>
        /\ HitSources(state.search_results) = {"mock_support"}
        /\ Get(state.processed_info, "specifications") = {}
        /\ Get(state.processed_info, "pricing") = {}
        /\ result.response # <<>>

HasDollarAmount(text) == \E i \in 1..Len(text) : Contains(<<text[i]>>, "$")

\* the query "iPad Pro price" was answered without search credentials, the classifier
\* said "pricing" and no live search returned anything
PricingScenario ==
    /\ AllSearchesCanned
    /\ state.query = <<"iPad", "Pro", "price">>
    /\ ~search_apis.serpapi /\ ~search_apis.google_custom
    /\ <<"classifier", <<"pricing">> >> \in llm_replies

\* the parts of C18 up to the extractor: category, canned pricing results, prices found
PricingScenarioExtracts ==
    PricingScenario =>
        /\ result.query_type = "pricing"
        /\ HitSources(state.search_results) = {"mock_pricing", "mock_comparison"}
        /\ "prices_found" \in Keys(Get(state.processed_info, "pricing"))
        /\ \A i \in 1..Len(Get(Get(state.processed_info, "pricing"), "prices_found")) :
              Get(Get(state.processed_info, "pricing"), "prices_found")[i] \in DollarAmounts

\* C18 (as stated): "iPad Pro price" without search credentials is classified "pricing",
\* the search stage returns the canned pricing results, the pricing block holds dollar
\* amounts, the response carries a dollar amount, and the result has at most 3 sources.
C18_PricingScenario ==
    PricingScenario =>
        /\ result.query_type = "pricing"
        /\ HitSources(state.search_results) = {"mock_pricing", "mock_comparison"}
        /\ "prices_found" \in Keys(Get(state.processed_info, "pricing"))
        /\ HasDollarAmount(result.response)
        /\ Len(result.sources) <= 3

(***************************************************************************)
(* Properties of the search stage                                          *)
(***************************************************************************)
Specialised == {"specifications", "pricing", "comparison", "troubleshooting", "availability"}

\* C19: the search stage issues at most 3 variants per request, the base query first
\* (3 for a category with specialised phrasings, 1 otherwise), searches them one after
\* another in that order, and stores the concatenation of their results in that order
\* without removing duplicates.
C19_SearchVariants ==
    /\ [](("search_web" \in running) =>
            LET search_queries == _generate_search_queries(state.query, state.query_type)
                n == Len(search_queries) - Len(sw_queries)
            IN  /\ Len(search_queries) = (IF state.query_type \in Specialised THEN 3 ELSE 1)
                /\ search_queries[1] = <<"Apple", "iPad">> \o state.query
                /\ n \in 1..Len(search_queries)
                /\ s_query = search_queries[n]
                /\ s_caller = "search_web"
                /\ sw_queries = SubSeq(search_queries, n + 1, Len(search_queries)))
    /\ [][/\ ("search_web" \in running /\ sw_results' # sw_results) => s_pc = "returned"
          /\ ("search_web" \in running /\ s_pc = "returned") =>
                sw_results' = sw_results \o s_result
          /\ ("search_web" \in running /\ "search_web" \notin running') =>
                /\ sw_queries = <<>>
                /\ \E w \in writes' : w.node = "search_web"
                                      /\ w.st.search_results = sw_results']_vars

\* three variants were searched and one hit is stored twice
C19_Witness ==
    /\ Finished("search_web")
    /\ state.query_type \in Specialised
    /\ \E i, j \in 1..Len(state.search_results) :
          i < j /\ state.search_results[i] = state.search_results[j]

(***************************************************************************)
(* Properties of the provider requests of one search call                  *)
(***************************************************************************)
SingleRequestProviders == {"serpapi", "google_custom", "duckduckgo"}

OkCount(requests) == Cardinality({i \in 1..Len(requests) : requests[i] = "ok"})

\* no provider is called twice within the running search call
EachProviderOnce ==
    \A i, j \in 1..Len(attempted) : i # j => attempted[i].provider # attempted[j].provider

\* C20 (as stated): within one search call every provider endpoint is requested at most
\* once, and a request that fails (status other than 200, or a transport failure) makes
\* that provider's call return an empty result list.
C20_FailureGivesEmpty ==
    /\ EachProviderOnce
    /\ \A i \in 1..Len(attempted) :
          /\ Len(attempted[i].requests) <= (IF attempted[i].provider = "apple_direct"
                                            THEN Len(apple_urls) ELSE 1)
          /\ (\E r \in 1..Len(attempted[i].requests) : attempted[i].requests[r] = "failed")
                => attempted[i].n = 0

\* C20 (amended): within one search call every provider is called at most once and sends
\* one request (the Apple scrape: one per page, five in all); a failed request of
\* SerpAPI, Google or DuckDuckGo makes that call return an empty list; a failed Apple
\* page is skipped, the other pages are still fetched and the call returns the hits of
\* the pages that answered; a search that has returned has a non-empty result.
C20_OneRequestNoRetry ==
    /\ EachProviderOnce
    /\ \A i \in 1..Len(attempted) :
          LET a == attempted[i]
          IN  /\ a.provider \in SingleRequestProviders =>
                    /\ Len(a.requests) = 1
                    /\ a.requests[1] = "failed" => a.n = 0
              /\ a.provider = "apple_direct" =>
                    /\ Len(a.requests) = Len(apple_urls)
                    /\ a.n = OkCount(a.requests)
              /\ a.provider = "mock" => a.requests = <<>>
    /\ s_pc = "returned" => s_result # <<>>

\* a search call in which DuckDuckGo's only request failed, four of the five Apple pages
\* failed and the hit of the one that answered was returned
C20_Witness ==
    /\ s_pc = "returned"
    /\ \E i \in 1..Len(attempted) :
          /\ attempted[i].provider = "duckduckgo"
          /\ attempted[i].requests = <<"failed">>
    /\ LET last == attempted[Len(attempted)]
       IN  /\ last.provider = "apple_direct"
           /\ OkCount(last.requests) = 1
           /\ Len(s_result) = 1

(***************************************************************************)
(* Properties of when a session leaves the store                           *)
(***************************************************************************)
Sweeps == {"health", "list_sessions"}

\* C21: a session leaves the store only in a sweep that finds it expired, or by the
\* delete of its own id; sweeps run only inside GET /health and GET /sessions; an
\* expired session that no sweep has met yet stays in the store and a lookup by its id
\* still returns it; create, lookup, delete, classify and chat remove no other session.
C21_RemovedOnlyBySweep ==
    [][\A sid \in DOMAIN user_sessions :
          /\ sid \notin DOMAIN user_sessions' =>
                \/ resp'.op \in Sweeps /\ IdleHours(sid) > SESSION_TIMEOUT
                \/ resp'.op = "delete_session" /\ resp'.status = 200
                   /\ resp'.session_id = sid
          /\ (IdleHours(sid) > SESSION_TIMEOUT /\ resp'.op \notin Sweeps
              /\ ~(resp'.op = "delete_session" /\ resp'.session_id = sid)) =>
                /\ sid \in DOMAIN user_sessions'
                /\ user_sessions'[sid] = user_sessions[sid]
          /\ (IdleHours(sid) > SESSION_TIMEOUT /\ get_session(sid)) =>
                /\ resp'.status = 200
                /\ resp'.session_id = sid
                /\ resp'.message_count = Len(Turns(sid))]_vars

\* a lookup returned a session that is past the inactivity window, with a turn in it
C21_Witness ==
    /\ resp.op = "get_session" /\ resp.status = 200
    /\ resp.session_id \in DOMAIN user_sessions
    /\ IdleHours(resp.session_id) > SESSION_TIMEOUT
    /\ resp.message_count > 0

(***************************************************************************)
(* Properties of /chat requests on one session                             *)
(***************************************************************************)
\* the positions of the session's history where two user turns are adjacent
AdjacentUserTurns(sid) ==
    {i \in 1..(Len(Turns(sid)) - 1) :
        Turns(sid)[i].role = "user" /\ Turns(sid)[i + 1].role = "user"}

\* no assistant turn is stored in any session
NoAssistantTurn ==
    \A sid \in DOMAIN user_sessions :
        \A i \in 1..Len(Turns(sid)) : Turns(sid)[i].role # "assistant"

\* C22 (as stated): two /chat requests on one session id overlap at their awaited
\* pipeline call and both append to the same history: where two user turns are
\* adjacent, the assistant turn of the first request is stored after the user turn of
\* the second.
C22_OverlapInterleavesTurns ==
    \A sid \in DOMAIN user_sessions :
        \A i \in AdjacentUserTurns(sid) :
            \E k \in (i + 2)..Len(Turns(sid)) :
                /\ Turns(sid)[k].role = "assistant"
                /\ Turns(sid)[k].content = Turns(sid)[i].content

(***************************************************************************)
(* Properties of the search tool's HTTP session                            *)
(***************************************************************************)
OpenClients == {n \in 1..Len(clients) : clients[n] = "open"}

\* C23: the search tool holds at most one HTTP session at any time; the session is
\* created by the first provider call that needs it and reused by every later one, also
\* by the calls of an overlapping search; close releases it and leaves the tool without
\* a session; the next search creates a fresh session, never the released one.
C23_OneHttpSession ==
    /\ [](/\ Cardinality(OpenClients) <= 1
          /\ session = 0 => OpenClients = {}
          /\ session # 0 => OpenClients = {session})
    /\ [][/\ (session # 0 /\ session' # 0) => session' = session
          /\ (session = 0 /\ session' # 0) =>
                /\ session' = Len(clients) + 1
                /\ clients' = Append(clients, "open")
          /\ (session # 0 /\ session' = 0) =>
                clients' = [clients EXCEPT ![session] = "closed"]
          /\ \A n \in 1..Len(clients) : clients[n] = "closed" => clients'[n] = "closed"]_vars

\* after a close, a search has opened the second session and returned
C23_Witness ==
    /\ clients = <<"closed", "open">>
    /\ session = 2
    /\ s_pc = "returned"

(***************************************************************************)
(* Properties of POST /classify                                            *)
(***************************************************************************)
\* C24: POST /classify only reads the session store: it creates no session, appends no
\* turn and changes no last-activity time; its has_context is true exactly when the
\* given session id is in the store and that session has at least one turn.
C24_ClassifyReadsOnly ==
    [][resp'.op = "classify_query" =>
          /\ UNCHANGED <<user_sessions, heap, uuids>>
          /\ resp'.status = 200 =>
                (resp'.has_context <=>
                    /\ resp'.session_id \in DOMAIN user_sessions
                    /\ Len(Turns(resp'.session_id)) > 0)]_vars

\* a classification was answered with context for a session that holds one turn
C24_Witness ==
    /\ resp.op = "classify_query" /\ resp.status = 200
    /\ resp.has_context
    /\ resp.session_id \in DOMAIN user_sessions
    /\ Len(Turns(resp.session_id)) = 1

(***************************************************************************)
(* Properties of a /chat request that fails                                *)
(***************************************************************************)
\* the session stored under sid is the one of the pre-state with one more user turn
UserTurnAppended(sid) ==
    /\ sid \in DOMAIN user_sessions
    /\ user_sessions'[sid] = user_sessions[sid]
    /\ LET before == heap[user_sessions[sid]].messages
           after == heap'[user_sessions'[sid]].messages
       IN  /\ Len(after) = Len(before) + 1
           /\ SubSeq(after, 1, Len(before)) = before
           /\ after[Len(after)].role = "user"

\* the session stored under sid was created by this step and holds one user turn
CreatedWithUserTurn(sid) ==
    /\ sid \notin DOMAIN user_sessions
    /\ LET after == heap'[user_sessions'[sid]].messages
       IN  Len(after) = 1 /\ after[1].role = "user"

\* C25: a /chat request whose pipeline call raises is answered 500 and nothing is
\* rolled back: its user turn stays in the session without an assistant turn, and a
\* session created for the request stays in the store; every other session is as
\* before; so a session's message_count is the number of failed chats made on it.
C25_FailedChatKeepsTurn ==
    /\ [][(resp'.op = "chat" /\ resp'.status = 500) =>
             \E sid \in DOMAIN user_sessions' :
                 /\ UserTurnAppended(sid) \/ CreatedWithUserTurn(sid)
                 /\ DOMAIN user_sessions' = DOMAIN user_sessions \cup {sid}
                 /\ \A other \in DOMAIN user_sessions \ {sid} :
                       StoredSession(user_sessions', heap', other)
                           = StoredSession(user_sessions, heap, other)]_vars
    /\ [](resp.op = "get_session" /\ resp.status = 200 =>
             /\ resp.message_count = Cardinality(UserTurns(resp.session_id))
             /\ resp.message_count =
                   Cardinality({Turns(resp.session_id)[i].content :
                                   i \in 1..Len(Turns(resp.session_id))}))

\* a lookup after two failed chats on one session reports two messages
C25_Witness ==
    /\ resp.op = "get_session" /\ resp.status = 200
    /\ resp.message_count = 2
    /\ chat_count = 2

(***************************************************************************)
(* Properties of the ids sessions are stored under                         *)
(***************************************************************************)
\* the ids the step put into the store
NewIds == (DOMAIN user_sessions') \ (DOMAIN user_sessions)

\* every stored session's own session_id is the key it is stored under
KeyIsOwnId ==
    \A sid \in DOMAIN user_sessions : StoredSession(user_sessions, heap, sid).session_id = sid

\* the parts of C26 about the store: a /chat request without session_id, or with one
\* that is not in the store, stores one new session under an id never handed out
\* before, so not under an id a client has seen; and KeyIsOwnId holds throughout
FreshIdOnUnknownSession ==
    /\ []KeyIsOwnId
    /\ [][\A session_id \in {0} \cup ClientIds :
             (chat(session_id) /\ agent /\ session_id \notin DOMAIN user_sessions) =>
                 /\ NewIds = {uuids'}
                 /\ uuids' \notin 1..uuids
                 /\ session_id \in 0..uuids => uuids' # session_id]_vars

\* C26 (as stated): a /chat request whose session_id is missing or not in the store
\* creates a new session under a freshly generated id, never under the id the client
\* supplied, and returns that new id; and every stored session's own session_id equals
\* the key it is stored under.
C26_NewSessionIdReturned ==
    /\ []KeyIsOwnId
    /\ [][\A session_id \in {0} \cup ClientIds :
             (chat(session_id) /\ agent /\ session_id \notin DOMAIN user_sessions) =>
                 /\ NewIds = {uuids'}
                 /\ uuids' \notin 1..uuids
                 /\ session_id \in 0..uuids => uuids' # session_id
                 /\ resp'.session_id = uuids']_vars

(***************************************************************************)
(* Properties of /chat requests that complete                              *)
(***************************************************************************)
\* the positions of the turns of request r in the history of the session under sid
TurnsOf(sid, r, role) ==
    {i \in 1..Len(Turns(sid)) : Turns(sid)[i].content = r /\ Turns(sid)[i].role = role}

\* the /chat requests made on the session stored under sid
RequestsOn(sid) == {Turns(sid)[i].content : i \in 1..Len(Turns(sid))}

\* C27 (as stated): no turn is lost: after k /chat requests on a session have completed,
\* in any interleaving, the session holds 2k turns, k user turns and k assistant turns,
\* and each request's user turn precedes its own assistant turn.
C27_NoTurnLost ==
    \A sid \in DOMAIN user_sessions :
        /\ Len(Turns(sid)) = 2 * Cardinality(RequestsOn(sid))
        /\ \A r \in RequestsOn(sid) :
              /\ Cardinality(TurnsOf(sid, r, "user")) = 1
              /\ Cardinality(TurnsOf(sid, r, "assistant")) = 1
              /\ \A u \in TurnsOf(sid, r, "user") :
                    \A a \in TurnsOf(sid, r, "assistant") : u < a

\* C28 (as stated): a /chat request on a stored session completes successfully and
\* returns that session's id, also when the session is deleted or swept while the
\* request is in the pipeline; a session removed that way is not put back, so a later
\* lookup by the returned id answers 404.
C28_ChatOutlivesItsSession ==
    [][/\ \A session_id \in ClientIds :
             (chat(session_id) /\ agent /\ session_id \in DOMAIN user_sessions) =>
                 /\ resp'.status = 200
                 /\ resp'.session_id = session_id
       /\ \A sid \in ClientIds :
             (Removed(sid) /\ get_session(sid)) => resp'.status = 404]_vars

(***************************************************************************)
(* Properties of /chat on a session past the inactivity window             *)
(***************************************************************************)
\* C29: a /chat request on a session that is past the inactivity window and not yet
\* swept reuses that session: no session is created, its earlier turns stay in the
\* history, and its last-activity time is set to now, so that a sweep that runs
\* afterwards keeps it.
C29_ChatRevivesExpired ==
    [][/\ \A session_id \in ClientIds :
             (/\ chat(session_id) /\ agent
              /\ session_id \in DOMAIN user_sessions
              /\ IdleHours(session_id) > SESSION_TIMEOUT) =>
                 /\ NewIds = {}
                 /\ UserTurnAppended(session_id)
                 /\ heap'[user_sessions'[session_id]].last_activity = now
                 /\ ~is_expired(heap'[user_sessions'[session_id]])
       /\ resp'.op \in Sweeps =>
             \A sid \in DOMAIN user_sessions :
                 heap[user_sessions[sid]].last_activity = now =>
                     /\ sid \in DOMAIN user_sessions'
                     /\ StoredSession(user_sessions', heap', sid)
                           = StoredSession(user_sessions, heap, sid)]_vars

\* a sweep kept a session whose second turn came more than 24 hours after its first,
\* in the hour of that second turn
C29_Witness ==
    /\ resp.op \in Sweeps
    /\ \E sid \in DOMAIN user_sessions :
          /\ Len(Turns(sid)) = 2
          /\ Turns(sid)[2].timestamp - Turns(sid)[1].timestamp > SESSION_TIMEOUT
          /\ now = Turns(sid)[2].timestamp

(***************************************************************************)
(* Properties of a session's history and activity time                     *)
(***************************************************************************)
IsPrefix(before, after) ==
    Len(before) <= Len(after) /\ SubSeq(after, 1, Len(before)) = before

\* C30: in every reachable state a session's last_activity is not before its
\* created_at; and as long as a session stays in the store no step removes, reorders or
\* rewrites a stored turn (the history before the step is a prefix of the history after
\* it, so message_count never decreases), moves last_activity backwards or changes
\* created_at.
C30_AppendOnlyHistory ==
    /\ [](\A sid \in DOMAIN user_sessions :
             LET s == StoredSession(user_sessions, heap, sid)
             IN  /\ s.created_at <= s.last_activity
                 /\ s.last_activity <= now
                 /\ \A i \in 1..Len(s.messages) :
                       /\ s.created_at <= s.messages[i].timestamp
                       /\ s.messages[i].timestamp <= s.last_activity)
    /\ [][\A sid \in (DOMAIN user_sessions) \cap (DOMAIN user_sessions') :
             LET before == StoredSession(user_sessions, heap, sid)
                 after == StoredSession(user_sessions', heap', sid)
             IN  /\ IsPrefix(before.messages, after.messages)
                 /\ before.last_activity <= after.last_activity
                 /\ before.created_at = after.created_at
                 /\ before.session_id = after.session_id]_vars

\* a session holds two turns, the second stored after the session's creation hour
C30_Witness ==
    \E sid \in DOMAIN user_sessions :
        LET s == StoredSession(user_sessions, heap, sid)
        IN  /\ Len(s.messages) = 2
            /\ s.created_at < s.last_activity
            /\ s.messages[1].timestamp < s.messages[2].timestamp

====
